---- MODULE Spec2Model ----
(***************************************************************************)
(* cloudwatch-logs-cli: the interactive flow of lib/utils.js.              *)
(*                                                                         *)
(*   SpecTail  one tail session of streamLogs: the 2-second timer, the     *)
(*             FilterLogEvents requests in flight, the credential prompt   *)
(*             of an expired request and its retry, the quit key.          *)
(*   SpecNav   the menus of the logs command: getMainLogGroup,             *)
(*             getLogGroup, getLogStream, promptForBack, up to the call    *)
(*             of streamLogs.                                              *)
(*                                                                         *)
(* Strings that the code slices and searches (log group names, prefixes)   *)
(* are sequences of one-character strings; the string operations are       *)
(* modelled by what they compute (StartsWith, IndexOf, LastIndexOf,        *)
(* Slice).                                                                 *)
(***************************************************************************)
EXTENDS Integers, Sequences, FiniteSets, TLC

VARIABLES
    \* ---- streamLogs (one tail session) ----
    logBuffer,           \* let logBuffer = []
    startTime,           \* let startTime: the watermark sent with the next request
    lastFetchHadEvents,  \* let lastFetchHadEvents
    fetches,             \* the calls of fetchLogs so far, oldest first
    intervalId,          \* TRUE while the setInterval timer is armed
    rawMode,             \* process.stdin raw mode
    data,                \* data.events of the latest request that returned events or none
    completed,           \* how many requests have returned a list of events
    appended,            \* every line ever pushed to logBuffer, in order
    console,             \* what the terminal shows after the latest repaint
    process,             \* "running" | "exit1"
    \* ---- the menus of the logs command ----
    pc,                  \* where the flow of the logs command stands
    mainLogGroup,        \* getLogGroup's parameter mainLogGroup
    prefix,              \* getLogGroup's parameter prefix
    caller,              \* who awaits getLogGroup: "logs" | "getLogStream"
    listing,             \* the log groups the latest listing request returned
    outcome,             \* how the latest listing request ended
    menu,                \* the choices of the list prompt on display
    logGroup,            \* const logGroup of the logs action
    streams,             \* the stream names the latest stream menu offered
    logStream,           \* the logStream argument of streamLogs
    retry,               \* the step handleExpiredToken's caller runs again
    prompts,             \* how many prompts have been presented so far
    error,               \* the error that ended the flow
    cameFrom,            \* the prefix the latest descent left
    undone,              \* the descent a Back has just gone back on
    region,              \* const region of the logs action
    credentials,         \* the credentials argument of the step that is running
    entered,             \* what getCredentialsFromUser returned to handleExpiredToken
    configFile,          \* the content of ~/.cwlogs-config.json
    stdin,               \* process.stdin: raw mode and the 'data' listeners registered
    timers,              \* the calls of streamLogs whose interval is armed
    now,                 \* what new Date() reads in filterLogGroupsByDate
    dateFilter,          \* const dateFilter of getLogGroup
    filtered             \* logGroups as filterLogGroupsByDate returned it

tailVars == <<logBuffer, startTime, lastFetchHadEvents, fetches, intervalId,
              rawMode, data, completed, appended, console, process>>

credVars == <<region, credentials, entered, configFile>>

sessionVars == <<stdin, timers>>

dateVars == <<dateFilter, filtered>>

navVars == <<pc, mainLogGroup, prefix, caller, listing, outcome, menu, logGroup,
             streams, logStream, retry, prompts, error, cameFrom, undone,
             credVars, sessionVars, now, dateVars>>

vars == <<tailVars, navVars>>

-----------------------------------------------------------------------------
(* Bounds of the model.  The two caps of the program are scaled down so    *)
(* that a session of MaxFetches requests overflows the buffer.             *)

\* MAX_LOG_LINES is 1000 in the program (lib/utils.js line 20).
MAX_LOG_LINES == 3
\* MAX_FETCH_LINES is 200 in the program (lib/utils.js line 21).
MAX_FETCH_LINES == 2
\* Calls of fetchLogs in one session (timer ticks and retries together).
MaxFetches == 3

-----------------------------------------------------------------------------
(* JavaScript string operations on sequences of characters; indexes are    *)
(* 0-based as in the code.                                                 *)

\* s.startsWith(p)
StartsWith(s, p) == Len(p) <= Len(s) /\ SubSeq(s, 1, Len(p)) = p

\* s.endsWith(c) for a one-character c
EndsWith(s, c) == Len(s) > 0 /\ s[Len(s)] = c

\* s.slice(from): from is within 0..s.length at every use
SliceFrom(s, from) == SubSeq(s, from + 1, Len(s))

\* s.slice(0, to): to is within 0..s.length at every use
SliceTo(s, to) == SubSeq(s, 1, to)

\* s.indexOf(c): the first index of c, or -1
IndexOf(s, c) ==
    LET hits == { i \in 0..(Len(s) - 1) : s[i + 1] = c }
    IN  IF hits = {} THEN -1 ELSE CHOOSE i \in hits : \A j \in hits : i <= j

\* s.lastIndexOf(c, position): the last index of c at or before position, or -1;
\* a negative position counts as 0.
LastIndexOfFrom(s, c, position) ==
    LET pos  == IF position < 0 THEN 0 ELSE position
        hits == { i \in 0..(Len(s) - 1) : i <= pos /\ s[i + 1] = c }
    IN  IF hits = {} THEN -1 ELSE CHOOSE i \in hits : \A j \in hits : j <= i

\* s.lastIndexOf(c)
LastIndexOf(s, c) == LastIndexOfFrom(s, c, Len(s))

\* s.split('/')
RECURSIVE Split(_)
Split(s) ==
    LET i == IndexOf(s, "/")
    IN  IF i = -1 THEN <<s>> ELSE <<SliceTo(s, i)>> \o Split(SliceFrom(s, i + 1))

\* The menu value of the Back choice: the string 'back'.
Back == <<"b", "a", "c", "k">>

-----------------------------------------------------------------------------
(* The log groups and streams the service may list.                        *)

\* The calendar, scaled down: months in a year, days in a month, clock readings
\* (milliseconds) in a day.
MonthsPerYear == 2
DaysPerMonth == 2
TicksPerDay == 2
\* new Date(time): getFullYear(), getMonth() (from 0), getDate() (from 1).
DateOf(time) ==
    LET day == time \div TicksPerDay
    IN  [year |-> day \div (MonthsPerYear * DaysPerMonth),
         month |-> (day \div DaysPerMonth) % MonthsPerYear,
         date |-> (day % DaysPerMonth) + 1]

\* The clock reading of a moment of a calendar day.
TimeOf(year, month, date, tick) ==
    ((year * MonthsPerYear + month) * DaysPerMonth + (date - 1)) * TicksPerDay + tick

\* The clock readings of the years 0 and 1.
Times == 0 .. (2 * MonthsPerYear * DaysPerMonth * TicksPerDay - 1)

\* The clock when the logs command runs.
Now == TimeOf(1, 1, 2, 1)

\* The calendar day of new Date().
Today == DateOf(now)

AllLogGroups ==
    { [logGroupName |-> <<"/", "a", "/", "b", "/", "c">>,
       creationTime |-> TimeOf(1, 1, 2, 0)],
      [logGroupName |-> <<"/", "a", "/", "b", "/", "d">>,
       creationTime |-> TimeOf(1, 1, 1, 0)],
      [logGroupName |-> <<"/", "a", "/", "e">>,
       creationTime |-> TimeOf(1, 0, 2, 0)],
      [logGroupName |-> <<"/", "a", "b", "/", "x">>,
       creationTime |-> TimeOf(0, 1, 2, 0)],
      [logGroupName |-> <<"/", "/", "a", "/", "z">>,
       creationTime |-> TimeOf(1, 1, 2, 1)] }

AllLogStreams == { <<"s", "1">>, <<"s", "2">> }

\* The date filters of the prompt.
DateFilters == {"all", "year", "month", "day"}

\* Prompts presented in one run.
MaxPrompts == 8

Names(logGroups) == { g.logGroupName : g \in logGroups }

\* The 'month' test without the comparison of the years.
filterByMonthOfAnyYear(logGroups, filter) ==
    { g \in logGroups :
        LET creationDate == DateOf(g.creationTime)
        IN  CASE filter = "all"   -> TRUE
              [] filter = "year"  -> creationDate.year = Today.year
              [] filter = "month" -> creationDate.month = Today.month
              [] filter = "day"   -> /\ creationDate.year = Today.year
                                     /\ creationDate.month = Today.month
                                     /\ creationDate.date = Today.date
              [] OTHER -> FALSE }

\* filterLogGroupsByDate(logGroups, filter)
filterLogGroupsByDate(logGroups, filter) ==
    { g \in logGroups :
        LET creationDate == DateOf(g.creationTime)
        IN  CASE filter = "all"   -> TRUE
              [] filter = "year"  -> creationDate.year = Today.year
              [] filter = "month" -> /\ creationDate.year = Today.year
                                     /\ creationDate.month = Today.month
              [] filter = "day"   -> /\ creationDate.year = Today.year
                                     /\ creationDate.month = Today.month
                                     /\ creationDate.date = Today.date
              [] OTHER -> FALSE }

\* getMainLogGroup: parts.length > 1 ? parts[1] : group.logGroupName
MainGroupOf(name) ==
    LET parts == Split(name) IN IF Len(parts) > 1 THEN parts[2] ELSE name

MainGroups(logGroups) == { MainGroupOf(g.logGroupName) : g \in logGroups }

\* `/${mainLogGroup}${prefix}`
FullPrefix(main, pre) == <<"/">> \o main \o pre

\* logGroups.filter(group => group.logGroupName.startsWith(`/${mainLogGroup}${prefix}`))
FilterByPrefix(logGroups, main, pre) ==
    { g \in logGroups : StartsWith(g.logGroupName, FullPrefix(main, pre)) }

\* The map callback of subGroups: the next segment of one log group name.
NextSegment(name, main, pre) ==
    LET remainingPath  == SliceFrom(name, Len(FullPrefix(main, pre)))
        nextSlashIndex == IndexOf(remainingPath, "/")
    IN  IF nextSlashIndex # -1
        THEN SliceTo(remainingPath, nextSlashIndex + 1)
        ELSE remainingPath

\* Array.from(new Set(logGroups.map(...)))
SubGroups(logGroups, main, pre) ==
    { NextSegment(g.logGroupName, main, pre) : g \in logGroups }

\* subGroups.map(group => ({ name: group, value: prefix + group }))
Choices(subGroups, pre) == { [name |-> g, value |-> pre \o g] : g \in subGroups }

BackChoice == [name |-> <<"B", "a", "c", "k">>, value |-> Back]

\* choices.length > 1 || (choices.length === 1 && choices[0].name.endsWith('/'))
ShowsSegmentMenu(choices) ==
    \/ Cardinality(choices) > 1
    \/ Cardinality(choices) = 1 /\ \A c \in choices : EndsWith(c.name, "/")

\* prefix.slice(0, prefix.lastIndexOf('/', prefix.length - 2) + 1)
BackPrefix(pre) == SliceTo(pre, LastIndexOfFrom(pre, "/", Len(pre) - 2) + 1)

\* logGroup.slice(0, logGroup.lastIndexOf('/') + 1)
TruncateAtLastSlash(path) == SliceTo(path, LastIndexOf(path, "/") + 1)

\* The length check left out: an empty listing goes on to the menus.
ListingNeverEmpty(logGroups) == FALSE

\* if (logGroups.length === 0) throw new AWSError('No log groups found.')
ListingIsEmpty(logGroups) == logGroups = {}

\* The choices of the region prompt (constants.js is not part of the sources).
Regions == {"us-east-1", "eu-west-1"}

\* JavaScript values of the credential fields: undefined, null, a number, or a
\* string held as its sequence of characters.
Undefined == [type |-> "undefined"]
Null == [type |-> "null"]
Num(n) == [type |-> "number", n |-> n]
Str(chars) == [type |-> "string", chars |-> chars]

\* ToBoolean, as && || ! apply it.
Truthy(v) ==
    CASE "type" \notin DOMAIN v -> TRUE   \* an object
      [] v.type = "string" -> v.chars # <<>>
      [] v.type = "number" -> v.n # 0
      [] OTHER -> FALSE

\* Property access: a property the object does not have is undefined.
Field(object, name) == IF name \in DOMAIN object THEN object[name] ELSE Undefined

WhiteSpace == {" ", "\t"}

\* String.prototype.trim
RECURSIVE Trim(_)
Trim(chars) ==
    IF chars = <<>> THEN <<>>
    ELSE IF Head(chars) \in WhiteSpace THEN Trim(Tail(chars))
    ELSE IF chars[Len(chars)] \in WhiteSpace THEN Trim(SubSeq(chars, 1, Len(chars) - 1))
    ELSE chars

\* What checkAWSConfig returned to the logs action.
AcquiredCredentials ==
    [accessKeyId |-> Str(<<"A", "K", "0">>), secretAccessKey |-> Str(<<"S", "K", "0">>),
     sessionToken |-> Str(<<"T", "0">>), region |-> "us-east-1"]

\* What the operator may type at the prompts of handleExpiredToken.
RefreshAnswers ==
    { [accessKeyId |-> Str(<<"A", "K", "1">>), secretAccessKey |-> Str(<<"S", "K", "1">>),
       sessionToken |-> Str(<<"T", "1">>), region |-> "us-east-1"],
      [accessKeyId |-> Str(<<"A", "K", "2">>), secretAccessKey |-> Str(<<"S", "K", "2">>),
       sessionToken |-> Undefined, region |-> "eu-west-1"] }

NoDescent == [valid |-> FALSE, prefix |-> <<>>]
NoError == [in |-> "", message |-> ""]

-----------------------------------------------------------------------------
(* The log stream as the service may hold it: events with an id and a      *)
(* timestamp; two of them share a timestamp.                               *)
LogEvents ==
    { [eventId |-> 1, timestamp |-> 1],
      [eventId |-> 2, timestamp |-> 2],
      [eventId |-> 3, timestamp |-> 2] }

\* Date.now() - 10 * 60 * 1000 on the model's clock.
InitialStartTime == 1

\* Sequences of pairwise distinct elements of S, of length 0..n.
RECURSIVE DistinctSeqs(_, _)
DistinctSeqs(S, n) ==
    IF n = 0 \/ S = {} THEN { <<>> }
    ELSE { <<>> } \cup
         UNION { { <<e>> \o s : s \in DistinctSeqs(S \ {e}, n - 1) } : e \in S }

\* FilterLogEvents({startTime, limit}): at most `limit` events of the stream,
\* none older than startTime, in whatever order the service sends them.
FilterLogEventsResult(from, limit) ==
    DistinctSeqs({ e \in LogEvents : e.timestamp >= from }, limit)

\* chalk.yellow('No log events found.')
NoEventsLine == [kind |-> "notice", timestamp |-> 0, message |-> 0]

\* chalk.green(`[${new Date(event.timestamp).toISOString()}] ${event.message}`)
RenderEvent(event) ==
    [kind |-> "event", timestamp |-> event.timestamp, message |-> event.eventId]

RenderEvents(events) == [i \in 1..Len(events) |-> RenderEvent(events[i])]

\* What the zero-event branch pushes.
PushNotice(hadEvents) == IF ~hadEvents THEN <<NoEventsLine>> ELSE <<>>

\* startTime = data.events[data.events.length - 1].timestamp + 1
NextStartTime(events) == events[Len(events)].timestamp + 1

\* A trim that keeps the oldest lines: logBuffer.slice(0, MAX_LOG_LINES).
TrimKeepsOldest(buf) ==
    IF Len(buf) > MAX_LOG_LINES THEN SubSeq(buf, 1, MAX_LOG_LINES) ELSE buf

\* if (logBuffer.length > MAX_LOG_LINES) logBuffer = logBuffer.slice(length - MAX)
TrimBuffer(buf) ==
    IF Len(buf) > MAX_LOG_LINES
    THEN SubSeq(buf, Len(buf) - MAX_LOG_LINES + 1, Len(buf))
    ELSE buf

InFlight == { i \in 1..Len(fetches) : fetches[i].st \in {"sent", "prompt"} }

InitTail ==
    /\ logBuffer = <<>>
    /\ startTime = InitialStartTime
    /\ lastFetchHadEvents = FALSE
    /\ fetches = <<>>
    /\ intervalId = TRUE
    /\ rawMode = TRUE
    /\ data = <<>>
    /\ completed = 0
    /\ appended = <<>>
    /\ console = <<>>
    /\ process = "running"

\* A call of fetchLogs: params are built, startTime included, and the request sent.
CallFetchLogs == Append(fetches, [startTime |-> startTime, st |-> "sent"])

\* setInterval(fetchLogs, 2000): the timer calls fetchLogs, whatever is in flight.
Tick ==
    /\ process = "running"
    /\ intervalId
    /\ Len(fetches) < MaxFetches
    /\ fetches' = CallFetchLogs
    /\ UNCHANGED <<logBuffer, startTime, lastFetchHadEvents, intervalId, rawMode,
                   data, completed, appended, console, process>>
    /\ UNCHANGED navVars

\* The request of call i returns data: the body of the try after the await.
FetchReturns(i, events) ==
    /\ process = "running"
    /\ fetches[i].st = "sent"
    /\ events \in FilterLogEventsResult(fetches[i].startTime, MAX_FETCH_LINES)
    /\ LET pushed == IF Len(events) = 0
                     THEN PushNotice(lastFetchHadEvents)
                     ELSE RenderEvents(events)
           trimmed == TrimBuffer(logBuffer \o pushed)
       IN  /\ logBuffer' = trimmed
           /\ appended' = appended \o pushed
           /\ console' = trimmed
    /\ startTime' = IF Len(events) = 0 THEN startTime ELSE NextStartTime(events)
    /\ lastFetchHadEvents' = (Len(events) # 0)
    /\ data' = events
    /\ completed' = completed + 1
    /\ fetches' = [fetches EXCEPT ![i].st = "done"]
    /\ UNCHANGED <<intervalId, rawMode, process>>
    /\ UNCHANGED navVars

\* The request fails with ExpiredTokenException / UnrecognizedClientException:
\* handleExpiredToken prompts for credentials.
FetchExpired(i) ==
    /\ process = "running"
    /\ fetches[i].st = "sent"
    /\ fetches' = [fetches EXCEPT ![i].st = "prompt"]
    /\ UNCHANGED <<logBuffer, startTime, lastFetchHadEvents, intervalId, rawMode,
                   data, completed, appended, console, process>>
    /\ UNCHANGED navVars

\* The operator has answered the prompt: the credentials object is updated in
\* place and fetchLogs is called again.
FetchRetry(i) ==
    /\ process = "running"
    /\ fetches[i].st = "prompt"
    /\ Len(fetches) < MaxFetches
    /\ fetches' = [CallFetchLogs EXCEPT ![i].st = "retried"]
    /\ UNCHANGED <<logBuffer, startTime, lastFetchHadEvents, intervalId, rawMode,
                   data, completed, appended, console, process>>
    /\ UNCHANGED navVars

\* Any other failure: fetchLogs throws AWSError inside the timer callback; the
\* rejection is unhandled and ends the process.
FetchFails(i) ==
    /\ process = "running"
    /\ fetches[i].st = "sent"
    /\ fetches' = [fetches EXCEPT ![i].st = "failed"]
    /\ process' = "exit1"
    /\ UNCHANGED <<logBuffer, startTime, lastFetchHadEvents, intervalId, rawMode,
                   data, completed, appended, console>>
    /\ UNCHANGED navVars

\* process.stdin.on('data'): the key 'q'.
KeyQ ==
    /\ process = "running"
    /\ intervalId
    /\ intervalId' = FALSE
    /\ rawMode' = FALSE
    /\ UNCHANGED <<logBuffer, startTime, lastFetchHadEvents, fetches,
                   data, completed, appended, console, process>>
    /\ UNCHANGED navVars

NextTail ==
    \/ Tick
    \/ \E i \in 1..Len(fetches) :
          \E events \in FilterLogEventsResult(fetches[i].startTime, MAX_FETCH_LINES) :
             FetchReturns(i, events)
    \/ \E i \in 1..Len(fetches) : FetchExpired(i)
    \/ \E i \in 1..Len(fetches) : FetchRetry(i)
    \/ \E i \in 1..Len(fetches) : FetchFails(i)
    \/ KeyQ

\* The logs command as it stands while streamLogs runs.
Streaming ==
    /\ pc = "streaming"
    /\ mainLogGroup = <<"a">>
    /\ prefix = <<"/">>
    /\ caller = "logs"
    /\ listing = {}
    /\ outcome = "listed"
    /\ menu = {}
    /\ logGroup = <<"/", "a", "/", "e">>
    /\ streams = {<<"s", "1">>}
    /\ logStream = <<"s", "1">>
    /\ retry = "none"
    /\ prompts = 0
    /\ error = NoError
    /\ cameFrom = NoDescent
    /\ undone = NoDescent
    /\ region = "us-east-1"
    /\ credentials = AcquiredCredentials
    /\ entered = AcquiredCredentials
    /\ configFile = AcquiredCredentials
    /\ stdin = [rawMode |-> TRUE, listeners |-> 1]
    /\ timers = {1}
    /\ now = Now
    /\ dateFilter = "none"
    /\ filtered = {}

\* One tail session.
InitStreamLogs == InitTail /\ Streaming

SpecTail == InitStreamLogs /\ [][NextTail]_vars

-----------------------------------------------------------------------------
(* The logs command from getMainLogGroup on.  A list prompt is modelled by *)
(* the set of its choices; the order of a menu (the sorts by creationTime  *)
(* and lastEventTimestamp) is not.                                         *)

\* The date filter prompt.
DateChoices == { [name |-> <<f>>, value |-> <<f>>] : f \in DateFilters }

InitNav ==
    /\ pc = "mainFetch"
    /\ mainLogGroup = <<>>
    /\ prefix = <<>>
    /\ caller = "logs"
    /\ listing = {}
    /\ outcome = "none"
    /\ menu = {}
    /\ logGroup = <<>>
    /\ streams = {}
    /\ logStream = <<>>
    /\ retry = "none"
    /\ prompts = 0
    /\ error = NoError
    /\ cameFrom = NoDescent
    /\ undone = NoDescent
    /\ region \in Regions
    /\ credentials = AcquiredCredentials
    /\ entered = AcquiredCredentials
    /\ configFile = AcquiredCredentials
    /\ stdin = [rawMode |-> FALSE, listeners |-> 0]
    /\ timers = {}
    /\ now = Now
    /\ dateFilter = "none"
    /\ filtered = {}

\* An AWSError leaves the function: the logs action prints it and exits with 1
\* (a rejection inside the stdin listener is unhandled and ends the process too).
Throw(where, message) ==
    /\ pc' = "exit1"
    /\ error' = [in |-> where, message |-> message]

\* A catch that retries twice and then gives up.
ExpiredGivesUp(step) ==
    /\ pc = step
    /\ prompts < MaxPrompts
    /\ outcome' = "expired"
    /\ IF prompts >= 2
       THEN Throw("handleExpiredToken", "too many attempts") /\ UNCHANGED <<retry, prompts>>
       ELSE pc' = "credentials" /\ retry' = step /\ prompts' = prompts + 1 /\ UNCHANGED error
    /\ UNCHANGED <<mainLogGroup, prefix, caller, listing, menu, logGroup, streams,
                   logStream, cameFrom, undone>>
    /\ UNCHANGED <<tailVars, now, dateVars>>
    /\ UNCHANGED credVars
    /\ UNCHANGED sessionVars

\* A listing request fails with ExpiredTokenException or
\* UnrecognizedClientException: handleExpiredToken prompts for credentials.
Expired(step) ==
    /\ pc = step
    /\ prompts < MaxPrompts
    /\ outcome' = "expired"
    /\ pc' = "credentials"
    /\ retry' = step
    /\ prompts' = prompts + 1
    /\ UNCHANGED <<mainLogGroup, prefix, caller, listing, menu, logGroup, streams,
                   logStream, error, cameFrom, undone>>
    /\ UNCHANGED <<tailVars, now, dateVars>>
    /\ UNCHANGED credVars
    /\ UNCHANGED sessionVars

\* A listing request fails with any other error.
Fails(step, where, message) ==
    /\ pc = step
    /\ outcome' = "error"
    /\ Throw(where, message)
    /\ UNCHANGED <<mainLogGroup, prefix, caller, listing, menu, logGroup, streams,
                   logStream, retry, prompts, cameFrom, undone>>
    /\ UNCHANGED <<tailVars, now, dateVars>>
    /\ UNCHANGED credVars
    /\ UNCHANGED sessionVars

\* handleExpiredToken: getCredentialsFromUser returns the operator's answers.
CredentialsEntered(answers) ==
    /\ pc = "credentials"
    /\ entered' = answers
    /\ pc' = "storing"
    /\ UNCHANGED <<mainLogGroup, prefix, caller, listing, outcome, menu, logGroup,
                   streams, logStream, retry, prompts, error, cameFrom, undone>>
    /\ UNCHANGED <<region, credentials, configFile>>
    /\ UNCHANGED <<tailVars, now, dateVars>>
    /\ UNCHANGED sessionVars

\* A retry that calls getLogGroup without its prefix argument.
CredentialsStoredDropsPrefix ==
    /\ pc = "storing"
    /\ configFile' = entered
    /\ credentials' = entered
    /\ pc' = retry
    /\ retry' = "none"
    /\ prefix' = <<>>
    /\ UNCHANGED <<mainLogGroup, caller, listing, outcome, menu, logGroup,
                   streams, logStream, prompts, error, cameFrom, undone>>
    /\ UNCHANGED <<region, entered>>
    /\ UNCHANGED <<tailVars, now, dateVars>>
    /\ UNCHANGED sessionVars

\* handleExpiredToken: storeCredentials has written the file and the new
\* credentials are returned; the catch calls its function again with them:
\* getMainLogGroup(region, newCredentials),
\* getLogGroup(region, newCredentials, mainLogGroup, prefix),
\* getLogStream(region, logGroup, newCredentials).
CredentialsStored ==
    /\ pc = "storing"
    /\ configFile' = entered
    /\ credentials' = entered
    /\ pc' = retry
    /\ retry' = "none"
    /\ UNCHANGED <<mainLogGroup, prefix, caller, listing, outcome, menu, logGroup,
                   streams, logStream, prompts, error, cameFrom, undone>>
    /\ UNCHANGED <<region, entered>>
    /\ UNCHANGED <<tailVars, now, dateVars>>
    /\ UNCHANGED sessionVars

\* handleExpiredToken: fs.writeFile fails; the error leaves the catch block.
CredentialsStoreFails ==
    /\ pc = "storing"
    /\ Throw("handleExpiredToken", "writeFile")
    /\ UNCHANGED <<mainLogGroup, prefix, caller, listing, outcome, menu, logGroup,
                   streams, logStream, retry, prompts, cameFrom, undone>>
    /\ UNCHANGED credVars
    /\ UNCHANGED <<tailVars, now, dateVars>>
    /\ UNCHANGED sessionVars

\* getMainLogGroup: the listing arrives.
MainListed(logGroups) ==
    /\ pc = "mainFetch"
    /\ listing' = logGroups
    /\ outcome' = "listed"
    /\ IF logGroups = {}
       THEN /\ Throw("getMainLogGroup", "No log groups found.")
            /\ UNCHANGED <<menu, prompts>>
       ELSE /\ prompts < MaxPrompts
            /\ menu' = { [name |-> g, value |-> g] : g \in MainGroups(logGroups) }
            /\ pc' = "mainMenu"
            /\ prompts' = prompts + 1
            /\ UNCHANGED error
    /\ UNCHANGED <<mainLogGroup, prefix, caller, logGroup, streams, logStream,
                   retry, cameFrom, undone>>
    /\ UNCHANGED <<tailVars, now, dateVars>>
    /\ UNCHANGED credVars
    /\ UNCHANGED sessionVars

\* The operator picks a main log group; the logs action calls getLogGroup.
MainChosen(c) ==
    /\ pc = "mainMenu"
    /\ c \in menu
    /\ mainLogGroup' = c.value
    /\ prefix' = <<>>
    /\ caller' = "logs"
    /\ pc' = "groupFetch"
    /\ cameFrom' = NoDescent
    /\ undone' = NoDescent
    /\ UNCHANGED <<listing, outcome, menu, logGroup, streams, logStream, retry,
                   prompts, error>>
    /\ UNCHANGED <<tailVars, now, dateVars>>
    /\ credentials' = AcquiredCredentials  \* back in the caller's frame
    /\ UNCHANGED <<region, entered, configFile>>
    /\ UNCHANGED sessionVars

\* getLogGroup: the listing arrives; the segment menu or the date filter is shown.
GroupListed(fetched) ==
    /\ pc = "groupFetch"
    /\ listing' = fetched
    /\ outcome' = "listed"
    /\ IF ListingIsEmpty(fetched)
       THEN /\ Throw("getLogGroup", "No log groups found.")
            /\ UNCHANGED <<menu, prompts>>
       ELSE LET logGroups == FilterByPrefix(fetched, mainLogGroup, prefix)
                choices   == Choices(SubGroups(logGroups, mainLogGroup, prefix), prefix)
            IN  /\ prompts < MaxPrompts
                /\ IF ShowsSegmentMenu(choices)
                   THEN menu' = choices \cup {BackChoice} /\ pc' = "groupMenu"
                   ELSE menu' = DateChoices /\ pc' = "dateMenu"
                /\ prompts' = prompts + 1
                /\ UNCHANGED error
    /\ UNCHANGED <<mainLogGroup, prefix, caller, logGroup, streams, logStream,
                   retry, cameFrom, undone>>
    /\ UNCHANGED <<tailVars, now, dateVars>>
    /\ UNCHANGED credVars
    /\ UNCHANGED sessionVars

\* streamLogs is called: setInterval, setRawMode(true), resume, on('data', ...).
StreamLogs ==
    /\ timers' = timers \cup {stdin.listeners + 1}
    /\ stdin' = [rawMode |-> TRUE, listeners |-> stdin.listeners + 1]

\* A return that leaves out `/${mainLogGroup}`.
LeafPathWithoutMain(main, selectedGroup) == selectedGroup

\* return `/${mainLogGroup}${selectedGroup}`
LeafPath(main, selectedGroup) == <<"/">> \o main \o selectedGroup

\* getLogGroup returns value: to the logs action, which calls getLogStream, or to
\* getLogStream, which returns it to its caller, which calls streamLogs.
Return(value) ==
    IF caller = "logs"
    THEN /\ logGroup' = value
         /\ pc' = "streamFetch"
         /\ UNCHANGED <<logStream, sessionVars>>
    ELSE /\ logStream' = value
         /\ pc' = "streaming"
         /\ StreamLogs
         /\ UNCHANGED logGroup

\* selectedGroup === 'back'
GroupBack ==
    /\ pc = "groupMenu"
    /\ BackChoice \in menu
    /\ prefix' = BackPrefix(prefix)
    /\ pc' = "groupFetch"
    /\ undone' = cameFrom
    /\ cameFrom' = NoDescent
    /\ UNCHANGED <<mainLogGroup, caller, listing, outcome, menu, logGroup, streams,
                   logStream, retry, prompts, error>>
    /\ UNCHANGED <<tailVars, now, dateVars>>
    /\ UNCHANGED credVars
    /\ UNCHANGED sessionVars

\* selectedGroup.endsWith('/')
GroupDescend(c) ==
    /\ pc = "groupMenu"
    /\ c \in menu
    /\ c.value # Back
    /\ EndsWith(c.value, "/")
    /\ prefix' = c.value
    /\ pc' = "groupFetch"
    /\ cameFrom' = [valid |-> TRUE, prefix |-> prefix]
    /\ undone' = NoDescent
    /\ UNCHANGED <<mainLogGroup, caller, listing, outcome, menu, logGroup, streams,
                   logStream, retry, prompts, error>>
    /\ UNCHANGED <<tailVars, now, dateVars>>
    /\ UNCHANGED credVars
    /\ UNCHANGED sessionVars

\* return `/${mainLogGroup}${selectedGroup}`
GroupLeaf(c) ==
    /\ pc = "groupMenu"
    /\ c \in menu
    /\ c.value # Back
    /\ ~EndsWith(c.value, "/")
    /\ Return(LeafPath(mainLogGroup, c.value))
    /\ UNCHANGED <<mainLogGroup, prefix, caller, listing, outcome, menu, streams,
                   retry, prompts, error, cameFrom, undone>>
    /\ UNCHANGED <<tailVars, now, dateVars>>
    /\ credentials' = AcquiredCredentials  \* back in the caller's frame
    /\ UNCHANGED <<region, entered, configFile>>

\* The operator picks a date filter; the final menu is shown.
DateChosen(c) ==
    /\ pc = "dateMenu"
    /\ c \in menu
    /\ prompts < MaxPrompts
    /\ dateFilter' = c.value[1]
    /\ filtered' = filterLogGroupsByDate(
                       FilterByPrefix(listing, mainLogGroup, prefix), dateFilter')
    /\ menu' = { [name |-> g.logGroupName, value |-> g.logGroupName] : g \in filtered' }
    /\ pc' = "finalMenu"
    /\ prompts' = prompts + 1
    /\ UNCHANGED <<mainLogGroup, prefix, caller, listing, outcome, logGroup, streams,
                   logStream, retry, error, cameFrom, undone>>
    /\ UNCHANGED <<tailVars, now>>
    /\ UNCHANGED credVars
    /\ UNCHANGED sessionVars

\* return finalAnswers.logGroup
FinalChosen(c) ==
    /\ pc = "finalMenu"
    /\ c \in menu
    /\ Return(c.value)
    /\ UNCHANGED <<mainLogGroup, prefix, caller, listing, outcome, menu, streams,
                   retry, prompts, error, cameFrom, undone>>
    /\ UNCHANGED <<tailVars, now>>
    /\ dateFilter' = "none"
    /\ filtered' = {}
    /\ credentials' = AcquiredCredentials  \* back in the caller's frame
    /\ UNCHANGED <<region, entered, configFile>>

\* A list prompt without choices has no answer to give: the prompt fails.
EmptyMenuFails ==
    /\ pc = "finalMenu"
    /\ menu = {}
    /\ Throw("getLogGroup", "prompt")
    /\ UNCHANGED <<mainLogGroup, prefix, caller, listing, outcome, menu, logGroup,
                   streams, logStream, retry, prompts, cameFrom, undone>>
    /\ UNCHANGED <<tailVars, now, dateVars>>
    /\ UNCHANGED credVars
    /\ UNCHANGED sessionVars

\* getLogStream: the listing arrives and the stream menu is shown.
StreamListed(logStreams) ==
    /\ pc = "streamFetch"
    /\ outcome' = "listed"
    /\ IF logStreams = {}
       THEN /\ Throw("getLogStream", "No log streams found.")
            /\ UNCHANGED <<menu, streams, prompts>>
       ELSE /\ prompts < MaxPrompts
            /\ menu' = { [name |-> s, value |-> s] : s \in logStreams } \cup {BackChoice}
            /\ streams' = logStreams
            /\ pc' = "streamMenu"
            /\ prompts' = prompts + 1
            /\ UNCHANGED error
    /\ UNCHANGED <<mainLogGroup, prefix, caller, listing, logGroup, logStream,
                   retry, cameFrom, undone>>
    /\ UNCHANGED <<tailVars, now, dateVars>>
    /\ UNCHANGED credVars
    /\ UNCHANGED sessionVars

\* return answers.logStream: the caller starts streamLogs.
StreamChosen(c) ==
    /\ pc = "streamMenu"
    /\ c \in menu
    /\ c.value # Back
    /\ logStream' = c.value
    /\ pc' = "streaming"
    /\ StreamLogs
    /\ UNCHANGED <<mainLogGroup, prefix, caller, listing, outcome, menu, logGroup,
                   streams, retry, prompts, error, cameFrom, undone>>
    /\ UNCHANGED <<tailVars, now, dateVars>>
    /\ credentials' = AcquiredCredentials  \* back in the caller's frame
    /\ UNCHANGED <<region, entered, configFile>>

\* answers.logStream === 'back':
\* return getLogGroup(region, credentials, logGroup.slice(0, lastIndexOf('/') + 1))
StreamBack ==
    /\ pc = "streamMenu"
    /\ BackChoice \in menu
    /\ mainLogGroup' = TruncateAtLastSlash(logGroup)
    /\ prefix' = <<>>
    /\ caller' = "getLogStream"
    /\ pc' = "groupFetch"
    /\ cameFrom' = NoDescent
    /\ undone' = NoDescent
    /\ UNCHANGED <<listing, outcome, menu, logGroup, streams, logStream, retry,
                   prompts, error>>
    /\ UNCHANGED <<tailVars, now, dateVars>>
    /\ UNCHANGED credVars
    /\ UNCHANGED sessionVars

\* A 'q' handler without clearInterval.
PromptForBackKeepsTimer ==
    /\ pc = "streaming"
    /\ prompts + stdin.listeners <= MaxPrompts
    /\ timers' = timers
    /\ stdin' = [stdin EXCEPT !.rawMode = FALSE]
    /\ pc' = "confirm"
    /\ prompts' = prompts + stdin.listeners
    /\ UNCHANGED <<mainLogGroup, prefix, caller, listing, outcome, menu, logGroup,
                   streams, logStream, retry, error, cameFrom, undone>>
    /\ UNCHANGED <<tailVars, now, dateVars>>
    /\ UNCHANGED credVars

\* The key 'q' during streamLogs.  Every 'data' listener registered so far runs
\* (none is ever removed): each clears the interval of its own call of
\* streamLogs, leaves raw mode and calls promptForBack, which asks its question.
\* The flow followed from here on is that of one of these calls of promptForBack.
PromptForBack ==
    /\ pc = "streaming"
    /\ prompts + stdin.listeners <= MaxPrompts
    /\ timers' = timers \ (1..stdin.listeners)
    /\ stdin' = [stdin EXCEPT !.rawMode = FALSE]
    /\ pc' = "confirm"
    /\ prompts' = prompts + stdin.listeners
    /\ UNCHANGED <<mainLogGroup, prefix, caller, listing, outcome, menu, logGroup,
                   streams, logStream, retry, error, cameFrom, undone>>
    /\ UNCHANGED <<tailVars, now, dateVars>>
    /\ UNCHANGED credVars

\* answers.back: getLogStream(region, logGroup, credentials)
ConfirmYes ==
    /\ pc = "confirm"
    /\ pc' = "streamFetch"
    /\ UNCHANGED <<mainLogGroup, prefix, caller, listing, outcome, menu, logGroup,
                   streams, logStream, retry, prompts, error, cameFrom, undone>>
    /\ UNCHANGED <<tailVars, now, dateVars>>
    /\ UNCHANGED credVars
    /\ UNCHANGED sessionVars

\* process.exit(0)
ConfirmNo ==
    /\ pc = "confirm"
    /\ pc' = "exit0"
    /\ UNCHANGED <<mainLogGroup, prefix, caller, listing, outcome, menu, logGroup,
                   streams, logStream, retry, prompts, error, cameFrom, undone>>
    /\ UNCHANGED <<tailVars, now, dateVars>>
    /\ UNCHANGED credVars
    /\ UNCHANGED sessionVars

NextNav ==
    \/ \E fetched \in SUBSET AllLogGroups : MainListed(fetched)
    \/ Expired("mainFetch")
    \/ Fails("mainFetch", "getMainLogGroup", "api")
    \/ \E c \in menu : MainChosen(c)
    \/ \E answers \in RefreshAnswers : CredentialsEntered(answers)
    \/ CredentialsStored
    \/ CredentialsStoreFails
    \/ \E fetched \in SUBSET AllLogGroups : GroupListed(fetched)
    \/ Expired("groupFetch")
    \/ Fails("groupFetch", "getLogGroup", "api")
    \/ GroupBack
    \/ \E c \in menu : GroupDescend(c)
    \/ \E c \in menu : GroupLeaf(c)
    \/ \E c \in menu : DateChosen(c)
    \/ \E c \in menu : FinalChosen(c)
    \/ EmptyMenuFails
    \/ \E fetched \in SUBSET AllLogStreams : StreamListed(fetched)
    \/ Expired("streamFetch")
    \/ Fails("streamFetch", "getLogStream", "api")
    \/ \E c \in menu : StreamChosen(c)
    \/ StreamBack
    \/ PromptForBack
    \/ ConfirmYes
    \/ ConfirmNo

\* The menus of the logs command; the tail session is not started.
InitLogs == InitNav /\ InitTail

SpecNav == InitLogs /\ [][NextNav]_vars

-----------------------------------------------------------------------------
(* The logs command and the tail loop side by side: the menus are followed *)
(* from the start of the logs action, the fetches of a session from the    *)
(* state its call of streamLogs leaves.                                    *)

TailModelled == pc = "streaming" /\ prompts = 0

InitRetry == InitLogs \/ InitStreamLogs

MenuStep == ~TailModelled /\ NextNav

TailStep == TailModelled /\ NextTail

NextRetry == MenuStep \/ TailStep

SpecRetry == InitRetry /\ [][NextRetry]_vars

-----------------------------------------------------------------------------
(* checkAWSConfig, followed by the region prompt of the logs action.       *)

\* readFile fails; JSON.parse fails.
NoFile == [state |-> "ENOENT"]
Unparsable == [state |-> "SyntaxError"]

\* What the config file may hold when the program starts: nothing, text that is
\* not JSON, the JSON values null and 5, and objects (Undefined: no such key).
StoredFiles ==
    {NoFile, Unparsable, Null, Num(5)} \cup
    [accessKeyId : {Undefined, Num(1), Str(<<" ">>), Str(<<"A", "K">>)},
     secretAccessKey : {Str(<<>>), Str(<<"S", "K">>)},
     sessionToken : {Undefined, Str(<<"T">>)},
     region : {"eu-west-1"}]

\* What the operator may type at the four prompts of getCredentialsFromUser.
PromptAnswers ==
    [accessKeyId : {Str(<<>>), Str(<<" ">>), Str(<<"A", "K">>)},
     secretAccessKey : {Str(<<>>), Str(<<"S", "K">>)},
     sessionToken : {Str(<<>>), Str(<<"T">>)},
     region : Regions]

\* data.Credentials.SessionToken
IssuedToken == Str(<<"S", "T", "S">>)

ValidKey(v) == Truthy(v) /\ v.type = "string" /\ Trim(v.chars) # <<>>

validateCredentials(c) ==
    /\ Truthy(c)
    /\ ValidKey(Field(c, "accessKeyId"))
    /\ ValidKey(Field(c, "secretAccessKey"))

loadStoredCredentials(file) ==
    IF file \in {NoFile, Unparsable} THEN Null
    ELSE IF validateCredentials(file) THEN file
    ELSE Null

\* The object getCredentialsFromUser returns for the answers.
getCredentialsFromUser(answers) ==
    [accessKeyId |-> answers.accessKeyId,
     secretAccessKey |-> answers.secretAccessKey,
     sessionToken |-> IF Truthy(answers.sessionToken) THEN answers.sessionToken
                      ELSE Undefined,
     region |-> answers.region]

\* if (!credentials.sessionToken): the token exchange, or the return.
AfterValidation(c) == IF ~Truthy(Field(c, "sessionToken")) THEN "sts" ELSE "returned"

checkFixed ==
    <<mainLogGroup, prefix, caller, listing, menu, logGroup, streams, logStream,
      retry, prompts, cameFrom, undone, sessionVars, tailVars, now, dateVars>>

InitCheck ==
    /\ InitTail
    /\ pc = "load"
    /\ configFile \in StoredFiles
    /\ credentials = Null
    /\ entered = Null
    /\ region = "undefined"
    /\ outcome = "none"
    /\ error = NoError
    /\ mainLogGroup = <<>>
    /\ prefix = <<>>
    /\ caller = "logs"
    /\ listing = {}
    /\ menu = {}
    /\ logGroup = <<>>
    /\ streams = {}
    /\ logStream = <<>>
    /\ retry = "none"
    /\ prompts = 0
    /\ cameFrom = NoDescent
    /\ undone = NoDescent
    /\ stdin = [rawMode |-> FALSE, listeners |-> 0]
    /\ timers = {}
    /\ now = Now
    /\ dateFilter = "none"
    /\ filtered = {}

\* credentials = await loadStoredCredentials(); if (!validateCredentials(...))
LoadStored ==
    /\ pc = "load"
    /\ credentials' = loadStoredCredentials(configFile)
    /\ pc' = IF ~validateCredentials(credentials') THEN "prompt"
             ELSE AfterValidation(credentials')
    /\ UNCHANGED <<region, entered, configFile, outcome, error, checkFixed>>

\* credentials = await getCredentialsFromUser()
CredentialsAnswered(answers) ==
    /\ pc = "prompt"
    /\ entered' = getCredentialsFromUser(answers)
    /\ credentials' = entered'
    /\ pc' = "store"
    /\ UNCHANGED <<region, configFile, outcome, error, checkFixed>>

\* await storeCredentials(credentials); if (!credentials.sessionToken)
AnswersStored ==
    /\ pc = "store"
    /\ configFile' = credentials
    /\ pc' = AfterValidation(credentials)
    /\ UNCHANGED <<region, credentials, entered, outcome, error, checkFixed>>

\* writeFile fails outside the try: the logs action exits with 1.
AnswersStoreFails ==
    /\ pc = "store"
    /\ Throw("checkAWSConfig", "writeFile")
    /\ UNCHANGED <<region, credentials, entered, configFile, outcome, checkFixed>>

\* GetSessionToken succeeds (STS knows the key pair): the token is set on the
\* credentials object; storeCredentials follows inside generateSessionToken.
StsIssues ==
    /\ pc = "sts"
    /\ validateCredentials(credentials)
    /\ credentials' = [credentials EXCEPT !.sessionToken = IssuedToken]
    /\ outcome' = "tokenIssued"
    /\ pc' = "stsStore"
    /\ UNCHANGED <<region, entered, configFile, error, checkFixed>>

\* A catch of checkAWSConfig that lets the AWSError through.
StsFailsRethrows ==
    /\ pc = "sts"
    /\ outcome' = "tokenFailed"
    /\ Throw("generateSessionToken", "Failed to get session token")
    /\ UNCHANGED <<region, credentials, entered, configFile, checkFixed>>

\* GetSessionToken fails: generateSessionToken throws an AWSError, the catch of
\* checkAWSConfig prints a line and the credentials are returned as they are.
StsFails ==
    /\ pc = "sts"
    /\ outcome' = "tokenFailed"
    /\ pc' = "returned"
    /\ UNCHANGED <<region, credentials, entered, configFile, error, checkFixed>>

\* storeCredentials inside generateSessionToken.
TokenStored ==
    /\ pc = "stsStore"
    /\ configFile' = credentials
    /\ pc' = "storeAgain"
    /\ UNCHANGED <<region, credentials, entered, outcome, error, checkFixed>>

\* Its writeFile fails: AWSError, caught in checkAWSConfig; the object already
\* carries the token.
TokenStoreFails ==
    /\ pc = "stsStore"
    /\ pc' = "returned"
    /\ UNCHANGED <<region, credentials, entered, configFile, outcome, error, checkFixed>>

\* await storeCredentials(credentials) of checkAWSConfig, inside the try: a
\* failure is caught, either way the credentials are returned.
StoredAgain(written) ==
    /\ pc = "storeAgain"
    /\ configFile' = IF written THEN credentials ELSE configFile
    /\ pc' = "returned"
    /\ UNCHANGED <<region, credentials, entered, outcome, error, checkFixed>>

\* const region = await getRegion()
GetRegion(answer) ==
    /\ pc = "returned"
    /\ region' = answer
    /\ pc' = "regionChosen"
    /\ UNCHANGED <<credentials, entered, configFile, outcome, error, checkFixed>>

NextCheck ==
    \/ LoadStored
    \/ \E answers \in PromptAnswers : CredentialsAnswered(answers)
    \/ AnswersStored
    \/ AnswersStoreFails
    \/ StsIssues
    \/ StsFails
    \/ TokenStored
    \/ TokenStoreFails
    \/ \E written \in BOOLEAN : StoredAgain(written)
    \/ \E answer \in Regions : GetRegion(answer)

SpecCheck == InitCheck /\ [][NextCheck]_vars

-----------------------------------------------------------------------------
(* Claims about the tail session, checked under SpecTail.                  *)

\* The largest timestamp among a non-empty list of events.
MaxTimestamp(events) ==
    CHOOSE t \in { events[i].timestamp : i \in 1..Len(events) } :
        \A j \in 1..Len(events) : events[j].timestamp <= t

\* C1: after a request that returned a non-empty list of events, the watermark
\* used by the next request is the largest returned timestamp plus 1, whatever
\* the order of the list.
C1_WatermarkIsMaxPlusOne ==
    (completed > 0 /\ Len(data) > 0) => startTime = MaxTimestamp(data) + 1

\* C2: a request that returns zero events pushes the "no events" notice exactly
\* when the previous request returned events, and pushes nothing otherwise.
C2_NoticeOnlyAfterEvents ==
    [][ (completed' = completed + 1 /\ data' = <<>>)
          => appended' = IF lastFetchHadEvents
                         THEN Append(appended, NoEventsLine)
                         ELSE appended ]_vars

\* C3: at most one call of fetchLogs is in flight (request sent or credential
\* prompt open) at any time.
C3_AtMostOneFetchInFlight == Cardinality(InFlight) <= 1

\* C4: the watermark never decreases from one value to the next.  Every
\* request of the model returns only events at or after the watermark it was
\* sent with (FilterLogEventsResult).
C4_WatermarkNeverDecreases == [][ startTime' >= startTime ]_vars

\* The last n elements of s.
Suffix(s, n) == SubSeq(s, Len(s) - n + 1, Len(s))

\* C5: the buffer, and the repaint made from it, hold at most MAX_LOG_LINES
\* lines and are the most recent lines pushed so far in the session.
C5_BufferIsRecentSuffix ==
    /\ Len(logBuffer) <= MAX_LOG_LINES
    /\ logBuffer = Suffix(appended, IF Len(appended) > MAX_LOG_LINES
                                    THEN MAX_LOG_LINES ELSE Len(appended))
    /\ completed > 0 => console = logBuffer

\* C5 witness: lines have been evicted and the latest pushed line is kept.
C5_EvictionHappened ==
    /\ Len(appended) > MAX_LOG_LINES
    /\ Len(logBuffer) = MAX_LOG_LINES
    /\ logBuffer[1] # appended[1]
    /\ logBuffer[MAX_LOG_LINES] = appended[Len(appended)]

-----------------------------------------------------------------------------
(* Claims about the menus, checked under SpecNav.                          *)

\* The entries /a/b/c, /a/b/d, /a/e.
ExampleNames ==
    { <<"/", "a", "/", "b", "/", "c">>,
      <<"/", "a", "/", "b", "/", "d">>,
      <<"/", "a", "/", "e">> }

\* The segments the menu on display offers (the Back choice apart).
OfferedSegments == { c.name : c \in menu \ {BackChoice} }

\* C6: for the entries /a/b/c, /a/b/d, /a/e, mainLogGroup a and prefix "" (the
\* initial call) the segment menu is shown and offers exactly "b/" and "e".
C6_SegmentsOfTheExample ==
    ( /\ pc \in {"groupMenu", "dateMenu"}
      /\ mainLogGroup = <<"a">>
      /\ prefix = <<>>
      /\ Names(listing) = ExampleNames )
    => /\ pc = "groupMenu"
       /\ OfferedSegments = { <<"b", "/">>, <<"e">> }

\* C7: a Back that follows a descent from prefix p re-runs getLogGroup with
\* prefix p, the initial prefix "" included.
C7_BackUndoesDescent == undone.valid => prefix = undone.prefix

\* C8: after Back in the stream menu getLogGroup keeps the entries whose name
\* starts with logGroup truncated at its last slash, the log group just left
\* among them (as long as the service still lists it).
C8_StreamBackOneLevelUp ==
    ( /\ caller = "getLogStream"
      /\ prefix = <<>>
      /\ pc \in {"groupMenu", "dateMenu"}
      /\ logGroup \in Names(listing) )
    => /\ FilterByPrefix(listing, mainLogGroup, prefix)
            = { g \in listing :
                  StartsWith(g.logGroupName, TruncateAtLastSlash(logGroup)) }
       /\ logGroup \in Names(FilterByPrefix(listing, mainLogGroup, prefix))

\* C9: streamLogs is started with a stream name that the latest stream menu,
\* shown for the same logGroup, listed.
C9_TailGetsAListedStream == pc = "streaming" => logStream \in streams

\* C10: when the listing of getLogGroup comes back empty, getLogGroup fails
\* with 'No log groups found.' and presents no menu or prompt.
C10_EmptyListingFailsUnprompted ==
    [][ (pc = "groupFetch" /\ outcome' = "listed" /\ listing' = {})
          => /\ pc' = "exit1"
             /\ error' = [in |-> "getLogGroup", message |-> "No log groups found."]
             /\ prompts' = prompts
             /\ menu' = menu ]_vars

\* C10 witness: getLogGroup has failed on an empty listing.
C10_FailedOnEmptyListing ==
    /\ pc = "exit1"
    /\ outcome = "listed"
    /\ listing = {}
    /\ error = [in |-> "getLogGroup", message |-> "No log groups found."]

-----------------------------------------------------------------------------
(* Further claims about the tail session, checked under SpecTail.          *)

\* C17: once the key 'q' has been handled (the timer is cleared) the session
\* calls fetchLogs no more: no tick and no retry after a credential prompt.
C17_NoFetchAfterQuit == [][ ~intervalId => Len(fetches') = Len(fetches) ]_vars

\* C20: no event is pushed to the buffer twice in one session.
C20_NoEventRenderedTwice ==
    \A i, j \in 1..Len(appended) :
        (i # j /\ appended[i].kind = "event") => appended[i] # appended[j]

-----------------------------------------------------------------------------
(* Further claims about the menus, checked under SpecNav.                  *)

\* The steps that list: getMainLogGroup, getLogGroup, getLogStream.
ListingSteps == {"mainFetch", "groupFetch", "streamFetch"}

\* What a step is called with, the credentials apart.
StepArguments == <<region, mainLogGroup, prefix, logGroup, caller>>

\* C11: an expired or invalid token in a listing step opens the credential
\* prompt; the answers are written to the config file before the step is called
\* again; the call is the same step with the same region, mainLogGroup and
\* prefix (the same logGroup), its credentials alone replaced by the answers;
\* any other failure of the listing ends the flow with an error.
C11_RefreshThenSameStep ==
    [][ /\ (pc \in ListingSteps /\ pc' = "credentials")
            => retry' = pc /\ StepArguments' = StepArguments
        /\ (pc = "credentials" /\ pc' # pc)
            => /\ pc' = "storing"
               /\ entered' \in RefreshAnswers
               /\ StepArguments' = StepArguments
               /\ retry' = retry
        /\ (pc = "storing" /\ pc' \in ListingSteps)
            => /\ pc' = retry
               /\ configFile' = entered
               /\ credentials' = entered
               /\ StepArguments' = StepArguments
        /\ (pc \in ListingSteps /\ outcome' = "error") => pc' = "exit1"
        /\ (outcome' = "expired" /\ pc \in ListingSteps) => pc' = "credentials" ]_vars

\* C11 witness: getLogGroup runs again below the top level with the answers of
\* the credential prompt, which are on file.
C11_RetriedWithFreshCredentials ==
    /\ pc = "groupFetch"
    /\ outcome = "expired"
    /\ prefix # <<>>
    /\ credentials \in RefreshAnswers
    /\ configFile = credentials

\* C12: the key 'q' disarms the timer of the running session, leaves raw mode
\* and opens the confirmation prompt; a timer once disarmed is never armed
\* again; yes calls getLogStream for the same logGroup and no ends the process
\* with code 0; a call of streamLogs arms a new timer.
C12_QuitStopsTimerThenAsks ==
    [][ /\ (pc = "streaming" /\ pc' # pc)
            => /\ pc' = "confirm"
               /\ stdin.listeners \notin timers'
               /\ ~stdin'.rawMode
               /\ prompts' > prompts
        /\ (pc = "confirm" /\ pc' # pc)
            => /\ pc' \in {"streamFetch", "exit0"}
               /\ logGroup' = logGroup
               /\ error' = NoError
        /\ timers' \ timers \subseteq {stdin'.listeners}
        /\ (pc # "streaming" /\ pc' = "streaming")
            => /\ stdin'.listeners = stdin.listeners + 1
               /\ stdin'.listeners \in timers'
               /\ stdin'.rawMode ]_vars

\* C12 witness: after q and yes a second call of streamLogs is running.
C12_SecondTailLoop ==
    /\ pc = "streaming"
    /\ stdin.listeners = 2
    /\ timers = {2}

\* C13: at most one timer is armed and at most one 'data' listener is
\* registered at any time.
C13_OneTimerOneListener == Cardinality(timers) <= 1 /\ stdin.listeners <= 1

\* C19: the path getLogGroup returns is the name of a log group of the listing
\* fetched in the returning step and starts with '/' + mainLogGroup + prefix.
C19_ReturnsAListedGroup ==
    [][ (pc \in {"groupMenu", "finalMenu"} /\ pc' \in {"streamFetch", "streaming"})
          => LET value == IF caller = "logs" THEN logGroup' ELSE logStream'
             IN  /\ value \in Names(listing)
                 /\ StartsWith(value, FullPrefix(mainLogGroup, prefix)) ]_vars

\* C19 witness: getLogGroup has returned a path after a descent and a Back.
C19_ReturnedAfterBack ==
    /\ pc = "streamFetch"
    /\ undone.valid
    /\ logGroup \in Names(listing)

-----------------------------------------------------------------------------
(* filterLogGroupsByDate applied to any list at any clock reading.         *)

\* The lists of log groups the function is applied to.
DatedNames == { <<"/", "a">>, <<"/", "b">> }
DatedLists ==
    { { [logGroupName |-> n, creationTime |-> time[n]] : n \in names } :
        names \in SUBSET DatedNames, time \in [DatedNames -> Times] }

InitDate ==
    /\ InitTail
    /\ pc = "filter"
    /\ listing \in DatedLists
    /\ now \in Times
    /\ dateFilter = "none"
    /\ filtered = {}
    /\ mainLogGroup = <<>>
    /\ prefix = <<>>
    /\ caller = "logs"
    /\ outcome = "listed"
    /\ menu = {}
    /\ logGroup = <<>>
    /\ streams = {}
    /\ logStream = <<>>
    /\ retry = "none"
    /\ prompts = 0
    /\ error = NoError
    /\ cameFrom = NoDescent
    /\ undone = NoDescent
    /\ region = "us-east-1"
    /\ credentials = AcquiredCredentials
    /\ entered = AcquiredCredentials
    /\ configFile = AcquiredCredentials
    /\ stdin = [rawMode |-> FALSE, listeners |-> 0]
    /\ timers = {}

\* logGroups = filterLogGroupsByDate(logGroups, dateFilter)
FilterApplied(filter) ==
    /\ pc = "filter"
    /\ dateFilter' = filter
    /\ filtered' = filterLogGroupsByDate(listing, filter)
    /\ pc' = "filtered"
    /\ UNCHANGED <<mainLogGroup, prefix, caller, listing, outcome, menu, logGroup,
                   streams, logStream, retry, prompts, error, cameFrom, undone>>
    /\ UNCHANGED <<tailVars, now>>
    /\ UNCHANGED credVars
    /\ UNCHANGED sessionVars

NextDate == \E filter \in DateFilters : FilterApplied(filter)

SpecDate == InitDate /\ [][NextDate]_vars

-----------------------------------------------------------------------------
(* Claims about checkAWSConfig, checked under SpecCheck.                   *)

\* C14: the credentials checkAWSConfig returns, and those the flow has when it
\* goes on to the region prompt, pass validateCredentials.
C14_ReturnsValidCredentials ==
    pc \in {"returned", "regionChosen"} => validateCredentials(credentials)

\* C15: when the credentials have no session token and GetSessionToken fails,
\* checkAWSConfig returns them as they are, without a session token, and no
\* error of the token exchange ends the flow.
C15_TokenFailureIsNotFatal ==
    [][ /\ (pc = "sts" /\ outcome' = "tokenFailed")
            => /\ pc' = "returned"
               /\ credentials' = credentials
               /\ ~Truthy(credentials'.sessionToken)
               /\ error' = NoError
        /\ error'.in # "generateSessionToken" ]_vars

\* C15 witness: the flow is at the region prompt after a failed exchange.
C15_ContinuedWithoutToken ==
    /\ pc = "regionChosen"
    /\ outcome = "tokenFailed"
    /\ credentials.sessionToken = Undefined
    /\ validateCredentials(credentials)

-----------------------------------------------------------------------------
(* The claim about filterLogGroupsByDate, checked under SpecDate.          *)

\* The entries the date filter is to keep: those created in the current year,
\* in the current month of it, on the current day of that.
CreatedThisYear(logGroups) ==
    { g \in logGroups : DateOf(g.creationTime).year = DateOf(now).year }
CreatedThisMonth(logGroups) ==
    { g \in CreatedThisYear(logGroups) : DateOf(g.creationTime).month = DateOf(now).month }
CreatedToday(logGroups) ==
    { g \in logGroups : DateOf(g.creationTime) = DateOf(now) }

\* C16: 'day' keeps exactly the entries created on the current day, 'month'
\* those of the current month of the current year, 'year' those of the current
\* year, 'all' every entry; so day, month, year, all are nested.
C16_DateFilterKeeps ==
    pc = "filtered" =>
        /\ dateFilter = "day" => filtered = CreatedToday(listing)
        /\ dateFilter = "month" => filtered = CreatedThisMonth(listing)
        /\ dateFilter = "year" => filtered = CreatedThisYear(listing)
        /\ dateFilter = "all" => filtered = listing
        /\ filterLogGroupsByDate(listing, "day") \subseteq filterLogGroupsByDate(listing, "month")
        /\ filterLogGroupsByDate(listing, "month") \subseteq filterLogGroupsByDate(listing, "year")
        /\ filterLogGroupsByDate(listing, "year") \subseteq filterLogGroupsByDate(listing, "all")

\* C16 witness: 'month' has dropped an entry of the same month of another year
\* and kept one created at another moment than the clock's.
C16_MonthOfAnotherYearDropped ==
    /\ pc = "filtered"
    /\ dateFilter = "month"
    /\ \E g \in listing \ filtered : DateOf(g.creationTime).month = Today.month
    /\ \E g \in filtered : g.creationTime # now

-----------------------------------------------------------------------------
(* The claim about the retries, checked under SpecRetry.                   *)

-----------------------------------------------------------------------------
(* The claim about the main log group of the kept entries, under SpecNav.  *)

\* C21: while getLogGroup, called by the logs action for the main log group
\* chosen in the first menu, shows a menu, every log group its filter has kept
\* has that main log group as the first segment of its name.
C21_KeptEntriesBelongToMain ==
    (caller = "logs" /\ pc \in {"groupMenu", "dateMenu", "finalMenu"})
        => \A g \in FilterByPrefix(listing, mainLogGroup, prefix) :
               MainGroupOf(g.logGroupName) = mainLogGroup

====
